---- MODULE Spec2Model ----
(***************************************************************************)
(* A model of the glsl-template rendering harness: the shared runtime      *)
(* state (Common), the pointer tracker (Pointer), the output stage         *)
(* (Output), the shader program wrapper (ShaderProgram) and the            *)
(* application driver (WebGLApp).                                          *)
(*                                                                         *)
(* Units.  Wall-clock readings (Date.now) and timer delays are integers in *)
(* milliseconds.  Common.time is kept exactly, as an integer count of      *)
(* 1/(1000*ScaleDen) seconds; Common.timeScale is an integer count of      *)
(* 1/ScaleDen.  Pointer coordinates are exact rationals <<n, d>>, d > 0,   *)
(* in lowest terms.  Floating-point rounding is not modelled.              *)
(***************************************************************************)
EXTENDS Integers, Sequences, FiniteSets, TLC

\* ------------------------------------------------------------------ bounds
MaxPending == 2
MaxElapsed == 2
MaxTimer == 200
TickMs == 50
StartNow == 7
MaxLen == 2
FrameMod == 2

\* ------------------------------------------------------- program constants
DecayMs == 100
ScaleDen == 2
ScaleMin == 0
ScaleMax == 2
PlaneSize == 2
PositionStride == 3

\* --------------------------------------------------------------- the host
Null == <<>>
Some(x) == <<x>>

CanvasEls == {"cA", "cB"}

\* A canvas element is created 4 x 2 here (the host's default canvas is wider
\* than high); the window takes one of two inner sizes.
DefaultDim == <<4, 2>>
WinSizes == {<<2, 2>>, <<4, 4>>}

\* Arguments WebGLApp.init / Common.init are called with: a canvas handle, or
\* a string that is the id of a canvas, or a string that matches no canvas.
InitArgs ==
    { [kind |-> "handle", ref |-> "cA"],
      [kind |-> "handle", ref |-> "cB"],
      [kind |-> "id", ref |-> "webgl-canvas"],
      [kind |-> "id", ref |-> "missing"] }

\* document.querySelector(`#${id}`) narrowed to canvas elements.
QuerySelector(id) == IF id = "webgl-canvas" THEN "cA" ELSE "null"

\* canvas.getContext('webgl', option): cA yields its (one) context, cB yields
\* none (for instance because it already holds a context of another kind).
GetContext(c) == IF c = "cA" THEN "glA" ELSE "null"

\* One call made on the drawing context.
Call(op, mode, nums) == [op |-> op, mode |-> mode, nums |-> nums]

\* ------------------------------------------------------------ state
VARIABLES
    \* Common
    canvas, gl, running, previousTime, time, timeScale,
    \* Pointer
    pointerMoved, coords, prevCoords, diff, timer,
    \* Output
    plane, shaderProgram,
    \* host: clocks, window, canvas sizes, animation frames, timers, listeners
    now, tnow, win, dims, pending, timers, listening,
    \* what the latest render invocation did, and the count of frame
    \* callbacks run so far (modulo FrameMod)
    invoked, renderTrace, glLog, errLog, frameNo,
    \* the error thrown by the latest public call ("" when it returned)
    thrown,
    \* history: clock readings and pointer events
    hist,
    \* ShaderProgram under construction (its own specification)
    sp,
    \* WebGLUtility calls on a render-target bundle (their own specification)
    util,
    \* how far the DOMContentLoaded handler of index.ts has got
    pc

vars ==
    << canvas, gl, running, previousTime, time, timeScale,
       pointerMoved, coords, prevCoords, diff, timer,
       plane, shaderProgram,
       now, tnow, win, dims, pending, timers, listening,
       invoked, renderTrace, glLog, errLog, frameNo, thrown, hist, sp, util, pc >>

commonVars == << canvas, gl, running, previousTime, time, timeScale >>
pointerVars == << pointerMoved, coords, prevCoords, diff, timer >>
outputVars == << plane, shaderProgram >>
frameVars == << invoked, renderTrace, glLog, errLog, frameNo >>

\* ------------------------------------------------ JavaScript arrays, numbers
\* An optional array argument: an array of items, or absent (undefined).
Arr(items) == [arr |-> TRUE, items |-> items]
Absent == [arr |-> FALSE, items |-> <<>>]
IsArray(v) == v.arr
\* v || null
OrNull(v) == IF v.arr THEN v ELSE Absent

\* ------------------------------------------------------------ WebGLUtility
\* createShader: outcome "ok", "fail" (compile status false) or "null"
\* (gl.createShader returned null).  Returns the shader handle and the calls.
WebGLUtility_createShader(type, outcome) ==
    IF outcome = "null"
    THEN [handle |-> "null", calls |-> << Call("createShader", type, <<>>) >>]
    ELSE LET common == << Call("createShader", type, <<>>),
                          Call("shaderSource", type, <<>>),
                          Call("compileShader", type, <<>>),
                          Call("getShaderParameter", "COMPILE_STATUS", <<>>) >>
         IN IF outcome = "ok"
            THEN [handle |-> type, calls |-> common]
            ELSE [handle |-> "null",
                  calls |-> Append(common, Call("getShaderInfoLog", type, <<>>))]

WebGLUtility_createProgram_unchecked(tf, outcome) ==
    IF outcome = "null"
    THEN [handle |-> "null", calls |-> << Call("createProgram", "", <<>>) >>]
    ELSE [handle |-> "program",
          calls |-> << Call("createProgram", "", <<>>),
                       Call("attachShader", "VERTEX_SHADER", <<>>),
                       Call("attachShader", "FRAGMENT_SHADER", <<>>),
                       Call("linkProgram", "", <<>>),
                       Call("useProgram", "", <<>>) >>]

\* createProgram / createTransformFeedbackProgram (tf = TRUE).
WebGLUtility_createProgram(tf, outcome) ==
    IF outcome = "null"
    THEN [handle |-> "null", calls |-> << Call("createProgram", "", <<>>) >>]
    ELSE LET attach == << Call("createProgram", "", <<>>),
                          Call("attachShader", "VERTEX_SHADER", <<>>),
                          Call("attachShader", "FRAGMENT_SHADER", <<>>) >>
             link == (IF tf THEN << Call("transformFeedbackVaryings", "SEPARATE_ATTRIBS", <<>>) >>
                            ELSE <<>>)
                     \o << Call("linkProgram", "", <<>>),
                           Call("getProgramParameter", "LINK_STATUS", <<>>) >>
         IN IF outcome = "ok"
            THEN [handle |-> "program",
                  calls |-> attach \o link \o << Call("useProgram", "", <<>>) >>]
            ELSE [handle |-> "null",
                  calls |-> attach \o link \o << Call("getProgramInfoLog", "", <<>>) >>]

\* createVbo: the buffer handle, or "null" when gl.createBuffer returns null.
WebGLUtility_createVbo(ok) == IF ok THEN "vbo" ELSE "null"

\* ----------------------------------------------------------- ShaderProgram
\* The first pairing check of the constructor: attribute against stride.
AttributeMismatch(attribute, stride) ==
    \/ ~IsArray(attribute)
    \/ ~IsArray(stride)
    \/ Len(attribute.items) # Len(stride.items)

UniformMismatch_bothGiven(uniform, type) ==
    /\ IsArray(uniform) /\ IsArray(type)
    /\ Len(uniform.items) # Len(type.items)

\* The second pairing check: uniform against type (after `|| null`).
UniformMismatch(uniform, type) ==
    /\ IsArray(uniform) \/ IsArray(type)
    /\ \/ ~IsArray(uniform)
       \/ ~IsArray(type)
       \/ Len(uniform.items) # Len(type.items)

\* new ShaderProgram(gl, option) on a context whose compiler and linker
\* behave as host says.  threw = "" when an instance results.
ShaderProgram_constructor(glctx, option, host) ==
    LET uniform == OrNull(option.uniform)
        type == OrNull(option.type)
        vs == WebGLUtility_createShader("VERTEX_SHADER", host.vs)
        fs == WebGLUtility_createShader("FRAGMENT_SHADER", host.fs)
        tf == /\ host.webgl2
              /\ IsArray(option.tfv)
              /\ Len(option.tfv.items) > 0
        pr == WebGLUtility_createProgram(tf, host.link)
        compiled == vs.calls \o fs.calls
        attrLoc == [i \in 1..Len(option.attribute.items) |->
                        IF host.resolves THEN i - 1 ELSE -1]
        attrCalls == [i \in 1..Len(option.attribute.items) |->
                        Call("getAttribLocation", "", <<i>>)]
        uniLoc == [i \in 1..Len(uniform.items) |->
                        IF host.resolves THEN i ELSE 0]
        uniCalls == [i \in 1..Len(uniform.items) |->
                        Call("getUniformLocation", "", <<i>>)]
    IN  IF AttributeMismatch(option.attribute, option.stride)
        THEN [threw |-> "attribute or stride does not match", calls |-> <<>>,
              stored |-> [uniform |-> uniform, type |-> type], obj |-> Null]
        ELSE IF UniformMismatch(uniform, type)
        THEN [threw |-> "uniform or type does not match", calls |-> <<>>,
              stored |-> [uniform |-> uniform, type |-> type], obj |-> Null]
        ELSE IF vs.handle = "null" \/ fs.handle = "null"
        THEN [threw |-> "shader compilation failed", calls |-> compiled,
              stored |-> [uniform |-> uniform, type |-> type], obj |-> Null]
        ELSE IF pr.handle = "null"
        THEN [threw |-> "shader program creation failed",
              calls |-> compiled \o pr.calls,
              stored |-> [uniform |-> uniform, type |-> type], obj |-> Null]
        ELSE [threw |-> "",
              calls |-> compiled \o pr.calls \o attrCalls \o uniCalls,
              stored |-> [uniform |-> uniform, type |-> type],
              obj |-> Some([gl |-> glctx,
                            attribute |-> option.attribute.items,
                            stride |-> option.stride.items,
                            uniform |-> uniform,
                            type |-> type,
                            vertexShader |-> vs.handle,
                            fragmentShader |-> fs.handle,
                            program |-> pr.handle,
                            attributeLocation |-> attrLoc,
                            uniformLocation |-> uniLoc])]

\* use()
ShaderProgram_use(p) == [threw |-> "", calls |-> << Call("useProgram", "", <<>>) >>]

\* setAttribute(vbo): vbo is the array of buffers; a buffer that is not a
\* WebGLBuffer (the `[]` placeholder) makes gl.bindBuffer raise a TypeError.
RECURSIVE BindBuffers(_, _, _)
BindBuffers(p, vbo, i) ==
    IF i > Len(vbo) THEN [threw |-> "", calls |-> <<>>]
    ELSE IF vbo[i] # "vbo"
    THEN [threw |-> "TypeError", calls |-> <<>>]
    ELSE LET rest == BindBuffers(p, vbo, i + 1)
         IN [threw |-> rest.threw,
             calls |-> << Call("bindBuffer", "ARRAY_BUFFER", <<>>),
                          Call("enableVertexAttribArray", "", <<p.attributeLocation[i]>>),
                          Call("vertexAttribPointer", "FLOAT",
                               <<p.attributeLocation[i], p.stride[i], 0, 0>>) >>
                       \o rest.calls]

ShaderProgram_setAttribute(p, vbo) ==
    IF Len(vbo) # Len(p.attribute)
    THEN [threw |-> "vbo or attribute does not match", calls |-> <<>>]
    ELSE BindBuffers(p, vbo, 1)

\* type.includes('Matrix')
IsMatrixType(t) == t \in {"uniformMatrix2fv", "uniformMatrix3fv", "uniformMatrix4fv"}

ShaderProgram_setUniform_partial(p, nvalues) ==
    IF ~IsArray(p.uniform) THEN [threw |-> "", calls |-> <<>>]
    ELSE LET m == IF nvalues < Len(p.uniform.items) THEN nvalues
                  ELSE Len(p.uniform.items)
         IN [threw |-> IF nvalues # Len(p.uniform.items)
                       THEN "value is an invalid" ELSE "",
             calls |-> [i \in 1..m |->
                           Call(p.type.items[i],
                                IF IsMatrixType(p.type.items[i]) THEN "false" ELSE "",
                                <<p.uniformLocation[i]>>)]]

\* setUniform(value): nvalues is value.length.
ShaderProgram_setUniform(p, nvalues) ==
    IF ~IsArray(p.uniform) THEN [threw |-> "", calls |-> <<>>]
    ELSE IF nvalues # Len(p.uniform.items)
    THEN [threw |-> "value is an invalid", calls |-> <<>>]
    ELSE [threw |-> "",
          calls |-> [i \in 1..nvalues |->
                        Call(p.type.items[i],
                             IF IsMatrixType(p.type.items[i]) THEN "false" ELSE "",
                             <<p.uniformLocation[i]>>)]]

\* ------------------------------------------------------------------ Common
\* Common.init(canvas, option): the canvas and context it leaves behind and
\* the error it throws ("" when it returns).
Common_init(arg) ==
    LET resolved == IF arg.kind = "handle" THEN arg.ref
                    ELSE IF arg.kind = "id" /\ QuerySelector(arg.ref) # "null"
                    THEN QuerySelector(arg.ref)
                    ELSE canvas
    IN  IF resolved = "null"
        THEN [canvas |-> resolved, gl |-> gl, threw |-> "invalid argument"]
        ELSE IF GetContext(resolved) = "null"
        THEN [canvas |-> resolved, gl |-> "null", threw |-> "webgl not supported"]
        ELSE [canvas |-> resolved, gl |-> GetContext(resolved), threw |-> ""]

\* The canvas an argument of Common.init resolves to ("null" for none).
Resolve(arg) == IF arg.kind = "handle" THEN arg.ref ELSE QuerySelector(arg.ref)

\* The history entry of a Common.init call: whether its argument resolved
\* to a canvas, and the error the call threw.
HistInitCall(arg, threw) ==
    [called |-> TRUE, resolves |-> Resolve(arg) # "null", threw |-> threw]

\* Common.setup(): previousTime after the call, for the context glctx.
Common_setup(glctx) == IF glctx = "null" THEN previousTime ELSE now

Common_createPlaneAttribute_triangles(width, height) ==
    LET x == width \div 2
        y == height \div 2
    IN [planePosition |-> << -x, y, 0,  x, y, 0,  -x, -y, 0,
                             -x, -y, 0,  x, y, 0,  x, -y, 0 >>,
        planeTexCoord |-> << 0, 1,  1, 1,  0, 0,  0, 0,  1, 1,  1, 0 >>]

\* Common.createPlaneAttribute(width, height), width and height even.
Common_createPlaneAttribute(width, height) ==
    LET x == width \div 2
        y == height \div 2
    IN [planePosition |-> << -x, y, 0,  x, y, 0,  -x, -y, 0,  x, -y, 0 >>,
        planeTexCoord |-> << 0, 1,  1, 1,  0, 0,  1, 0 >>]

\* Common.resize(): the canvas sizes after the call.
Common_resize(c, inner) == IF c = "null" THEN dims ELSE [dims EXCEPT ![c] = inner]

Common_update_unscaled ==
    LET deltaTime == now - previousTime
    IN [time |-> time + deltaTime * ScaleDen, previousTime |-> now]

Common_update_backwards ==
    LET deltaTime == previousTime - now
    IN [time |-> time + deltaTime * timeScale, previousTime |-> now]

\* Common.update(): time and previousTime after the call.
Common_update ==
    LET deltaTime == now - previousTime
    IN [time |-> time + deltaTime * timeScale, previousTime |-> now]

\* ------------------------------------------------------------------ Output
\* The option record Output.load passes to the ShaderProgram constructor.
OutputOption(pl) ==
    [attribute |-> Arr(pl.attribute),
     stride |-> Arr(pl.stride),
     uniform |-> Arr(<<"uTime", "uResolution", "uPointer">>),
     type |-> Arr(<<"uniform1f", "uniform2fv", "uniform2fv">>),
     tfv |-> Absent]

\* Output.init() with a context: the geometry and the program it leaves.
\* host.vbo tells whether gl.createBuffer yields a buffer.
Output_init(glctx, host) ==
    IF glctx = "null"
    THEN [plane |-> plane, shaderProgram |-> shaderProgram, threw |-> ""]
    ELSE LET attr == Common_createPlaneAttribute(PlaneSize, PlaneSize)
             handle == WebGLUtility_createVbo(host.vbo)
             pl == [position |-> attr.planePosition,
                    vbo |-> << IF handle = "null" THEN "[]" ELSE handle >>,
                    attribute |-> << "position" >>,
                    stride |-> << PositionStride >>]
             made == ShaderProgram_constructor(glctx, OutputOption(pl), host)
         IN [plane |-> Some(pl),
             shaderProgram |-> IF made.threw = "" THEN made.obj ELSE shaderProgram,
             threw |-> made.threw]

MissingPrerequisite_noProgram(glctx, cv, prog, pl) ==
    glctx = "null" \/ cv = "null" \/ pl = Null

\* The per-frame prerequisites Output.render tests first.
MissingPrerequisite(glctx, cv, prog, pl) ==
    glctx = "null" \/ cv = "null" \/ prog = Null \/ pl = Null

\* The draw sequence inside the try block of Output.render.  Dereferencing
\* a null object, or handing gl.bindBuffer something that is not a buffer,
\* raises a TypeError at that point.
DrawSequence(glctx, cv, prog, pl) ==
    LET bind == << Call("bindFramebuffer", "FRAMEBUFFER", <<>>) >>
        view == << Call("viewport", "", <<0, 0, dims[cv][1], dims[cv][2]>>),
                   Call("clear", "COLOR_BUFFER_BIT|DEPTH_BUFFER_BIT", <<>>) >>
        use == ShaderProgram_use(prog[1])
        att == ShaderProgram_setAttribute(prog[1], pl[1].vbo)
        uni == ShaderProgram_setUniform(prog[1], 3)
        draw == << Call("drawArrays", "TRIANGLE_STRIP",
                        <<0, Len(pl[1].position) \div 3>>) >>
    IN  IF glctx = "null" THEN [calls |-> <<>>, threw |-> "TypeError"]
        ELSE IF cv = "null" THEN [calls |-> bind, threw |-> "TypeError"]
        ELSE IF prog = Null THEN [calls |-> bind \o view, threw |-> "TypeError"]
        ELSE IF pl = Null
        THEN [calls |-> bind \o view \o use.calls, threw |-> "TypeError"]
        ELSE IF att.threw # ""
        THEN [calls |-> bind \o view \o use.calls \o att.calls, threw |-> att.threw]
        ELSE IF uni.threw # ""
        THEN [calls |-> bind \o view \o use.calls \o att.calls \o uni.calls,
              threw |-> uni.threw]
        ELSE [calls |-> bind \o view \o use.calls \o att.calls \o uni.calls \o draw,
              threw |-> ""]

\* Output.render(): the calls issued on the context and the error reported.
Output_render(glctx, cv, prog, pl) ==
    IF MissingPrerequisite(glctx, cv, prog, pl)
    THEN [calls |-> <<>>, error |-> "missing"]
    ELSE LET d == DrawSequence(glctx, cv, prog, pl)
         IN [calls |-> d.calls,
             error |-> IF d.threw = "" THEN "" ELSE "Error during render"]

\* Output.update(): render, then the debug panel's frame marker.
Output_update(glctx, cv, prog, pl) == Output_render(glctx, cv, prog, pl)

\* -------------------------------------------------------------- host facts
\* How the context's compiler, linker and allocator answer during one
\* Output.init (a 'webgl' context is never a WebGL2RenderingContext).
Outcomes == {"ok", "fail", "null"}
Hosts == [vs : Outcomes, fs : Outcomes, link : Outcomes,
          webgl2 : BOOLEAN, resolves : BOOLEAN, vbo : BOOLEAN]
\* The answers explored for an Output.init: nothing fails, one compile or
\* link step fails, or the context is lost.
HostOk == [vs |-> "ok", fs |-> "ok", link |-> "ok",
           webgl2 |-> FALSE, resolves |-> TRUE, vbo |-> TRUE]
\* A lost context: every create* call returns null.
HostLost == [vs |-> "null", fs |-> "null", link |-> "null",
             webgl2 |-> FALSE, resolves |-> TRUE, vbo |-> FALSE]
InitHosts == { HostOk,
               [HostOk EXCEPT !.vs = "fail"],
               [HostOk EXCEPT !.fs = "null"],
               [HostOk EXCEPT !.link = "fail"],
               HostLost }

Zero == <<0, 1>>

HistInit ==
    [outInitOk |-> FALSE,    \* an Output.init with a context has returned normally
     seeded |-> FALSE,       \* some Common.setup has seeded previousTime
     effective |-> FALSE,    \* the latest Common.setup seeded previousTime
     sinceSetup |-> FALSE,   \* Common.setup has been called
     t0 |-> 0,               \* Common.time at the latest Common.setup or
                             \* timeScale change (the start of the run)
     held |-> FALSE,         \* timeScale unchanged since the latest Common.setup
     lastCall |-> "none",    \* the latest clock call: "setup" or "update"
     lastCallAt |-> StartNow,\* the wall-clock reading at that call
     sumD |-> 0,             \* the sum of the wall-clock deltas of the
                             \* Common.update calls since the start of the run
     lastMoveAt |-> -1,      \* timer-clock reading at the latest handled pointer event
     prevMoveAt |-> -1,      \* ... and at the handled event before that one
     raw |-> <<0, 0>>,       \* the raw coordinates of the latest handled event
     rawDim |-> <<0, 0>>,    \* the canvas size at the latest handled event
     moved |-> FALSE,        \* a pointer event was handled since the previous frame
     nullCall |-> FALSE,     \* setCoords has been called while Common.canvas was null
     lastInit |-> [called |-> FALSE, resolves |-> FALSE, threw |-> ""]]
                             \* the latest Common.init call

SpIdle == [state |-> "none"]
UtilIdle == [state |-> "none"]

Init ==
    /\ canvas = "null" /\ gl = "null" /\ running = FALSE
    /\ previousTime = 0 /\ time = 0 /\ timeScale = ScaleDen
    /\ pointerMoved = FALSE
    /\ coords = <<Zero, Zero>> /\ prevCoords = <<Zero, Zero>> /\ diff = <<Zero, Zero>>
    /\ timer = Null
    /\ plane = Null /\ shaderProgram = Null
    /\ now = StartNow /\ tnow = 0
    /\ win \in WinSizes
    /\ dims = [c \in CanvasEls |-> DefaultDim]
    /\ pending = 0 /\ timers = {} /\ listening = FALSE
    /\ invoked = "none" /\ renderTrace = <<>> /\ glLog = <<>> /\ errLog = ""
    /\ frameNo = 0 /\ thrown = ""
    /\ hist = HistInit
    /\ sp = SpIdle
    /\ util = UtilIdle
    /\ pc = "boot"

\* ---------------------------------------------------------------- WebGLApp
\* WebGLApp.init(canvas, option): Common.init, Pointer.init, Output.init; an
\* error thrown by one of them ends the call there.
WebGLApp_init(arg, host) ==
    LET ci == Common_init(arg)
        oi == Output_init(ci.gl, host)
    IN  /\ canvas' = ci.canvas
        /\ gl' = ci.gl
        /\ IF ci.threw # ""
           THEN /\ thrown' = ci.threw
                /\ hist' = [hist EXCEPT !.lastInit = HistInitCall(arg, ci.threw)]
                /\ UNCHANGED << listening, plane, shaderProgram >>
           ELSE /\ listening' = TRUE
                /\ plane' = oi.plane
                /\ shaderProgram' = oi.shaderProgram
                /\ thrown' = oi.threw
                /\ hist' = [hist EXCEPT !.outInitOk = @ \/ oi.threw = "",
                                        !.lastInit = HistInitCall(arg, ci.threw)]
        /\ UNCHANGED << running, previousTime, time, timeScale, pointerVars,
                        now, tnow, win, dims, pending, timers, frameVars, sp, util >>

\* The clock history after a Common.setup() call.
HistSetup(h, glctx) ==
    [h EXCEPT !.seeded = @ \/ glctx # "null", !.effective = glctx # "null",
              !.sinceSetup = TRUE,
              !.t0 = time, !.held = TRUE,
              !.lastCall = "setup", !.lastCallAt = now, !.sumD = 0]

\* The clock history after a Common.update() call.
HistUpdate(h) ==
    [h EXCEPT !.lastCall = "update", !.lastCallAt = now,
              !.sumD = @ + (now - h.lastCallAt)]

\* WebGLApp.setup(): Common.setup, resize, then the running flag.
WebGLApp_setup ==
    /\ previousTime' = Common_setup(gl)
    /\ dims' = Common_resize(canvas, win)
    /\ running' = TRUE
    /\ thrown' = ""
    /\ hist' = HistSetup(hist, gl)
    /\ UNCHANGED << canvas, gl, time, timeScale, pointerVars, outputVars,
                    now, tnow, win, pending, timers, listening, frameVars, sp, util >>

Reschedule_twice(run) == IF run THEN 2 ELSE 0

Reschedule_always(run) == 1

Reschedule_never(run) == 0

\* How many animation frames render() requests, given the running flag.
Reschedule(run) == IF run THEN 1 ELSE 0

\* WebGLApp.render(), entered by an outside call ("call") or as the host's
\* animation-frame callback ("callback").
WebGLApp_render(entry) ==
    LET requested == Reschedule(running)
        cu == Common_update
        ou == Output_update(gl, canvas, shaderProgram, plane)
    IN  /\ pending' = pending - (IF entry = "callback" THEN 1 ELSE 0) + requested
        /\ time' = cu.time
        /\ previousTime' = cu.previousTime
        /\ glLog' = ou.calls
        /\ errLog' = ou.error
        /\ invoked' = entry
        /\ renderTrace' = [i \in 1..requested |-> "requestAnimationFrame"]
                          \o << "Common.update", "Output.update" >>
        /\ frameNo' = IF entry = "callback" THEN (frameNo + 1) % FrameMod ELSE frameNo
        /\ thrown' = ""
        /\ hist' = [HistUpdate(hist) EXCEPT !.moved = FALSE]
        /\ UNCHANGED << canvas, gl, running, timeScale, pointerVars, outputVars,
                        now, tnow, win, dims, timers, listening, sp, util >>

\* index.ts (or any caller) calls app.render().
RenderCall ==
    /\ running => pending < MaxPending
    /\ WebGLApp_render("call")

\* The host runs one requested animation frame.
FrameCallback ==
    /\ pending > 0
    /\ WebGLApp_render("callback")

\* Something outside the driver flips Common.running to false.
StopRunning ==
    /\ running
    /\ running' = FALSE
    /\ UNCHANGED << canvas, gl, previousTime, time, timeScale, pointerVars,
                    outputVars, now, tnow, win, dims, pending, timers, listening,
                    frameVars, thrown, hist, sp, util >>

\* The window is resized: the driver's 'resize' listener runs Common.resize.
WindowResize(inner) ==
    /\ inner # win
    /\ win' = inner
    /\ dims' = Common_resize(canvas, inner)
    /\ UNCHANGED << commonVars, pointerVars, outputVars, now, tnow, pending,
                    timers, listening, frameVars, thrown, hist, sp, util >>

Next ==
    \/ \E arg \in InitArgs, host \in InitHosts :
          WebGLApp_init(arg, host) /\ UNCHANGED pc
    \/ WebGLApp_setup /\ UNCHANGED pc
    \/ RenderCall /\ UNCHANGED pc
    \/ FrameCallback /\ UNCHANGED pc
    \/ StopRunning /\ UNCHANGED pc

\* The application driver with the output stage under any order of calls of
\* its public operations, at one wall-clock instant.
Spec == Init /\ [][Next]_vars

\* ------------------------------------------- the clock of Common, by itself
\* Common.init(canvas, option) called on the singleton.
CallCommonInit(arg) ==
    LET ci == Common_init(arg)
    IN  /\ canvas' = ci.canvas
        /\ gl' = ci.gl
        /\ thrown' = ci.threw
        /\ hist' = [hist EXCEPT !.lastInit = HistInitCall(arg, ci.threw)]
        /\ UNCHANGED << running, previousTime, time, timeScale, pointerVars,
                        outputVars, now, tnow, win, dims, pending, timers,
                        listening, frameVars, sp, util >>

\* Common.setup() called on the singleton.
CallCommonSetup ==
    /\ previousTime' = Common_setup(gl)
    /\ thrown' = ""
    /\ hist' = HistSetup(hist, gl)
    /\ UNCHANGED << canvas, gl, running, time, timeScale, pointerVars, outputVars,
                    now, tnow, win, dims, pending, timers, listening, frameVars, sp, util >>

\* Common.update() called on the singleton.
CallCommonUpdate ==
    /\ time' = Common_update.time
    /\ previousTime' = Common_update.previousTime
    /\ thrown' = ""
    /\ hist' = HistUpdate(hist)
    /\ UNCHANGED << canvas, gl, running, timeScale, pointerVars, outputVars,
                    now, tnow, win, dims, pending, timers, listening, frameVars, sp, util >>

\* The values the debug panel's timeScale slider takes (min 0.0, max 2.0).
SliderValues == (ScaleMin * ScaleDen)..(ScaleMax * ScaleDen)

\* The 'change' handler Gui binds to the slider.
Gui_onChange(v) ==
    /\ v # timeScale
    /\ timeScale' = v
    /\ hist' = [hist EXCEPT !.held = FALSE, !.t0 = time, !.sumD = 0]
    /\ UNCHANGED << canvas, gl, running, previousTime, time, pointerVars,
                    outputVars, now, tnow, win, dims, pending, timers, listening,
                    frameVars, thrown, sp, util >>

\* The wall clock (Date.now) advances; it does not run backwards.
WallTick ==
    /\ now < StartNow + MaxElapsed
    /\ now' = now + 1
    /\ UNCHANGED << commonVars, pointerVars, outputVars, tnow, win, dims,
                    pending, timers, listening, frameVars, thrown, hist, sp, util >>

NextClock ==
    \/ \E arg \in InitArgs : CallCommonInit(arg) /\ UNCHANGED pc
    \/ CallCommonSetup /\ UNCHANGED pc
    \/ CallCommonUpdate /\ UNCHANGED pc
    \/ \E v \in SliderValues : Gui_onChange(v) /\ UNCHANGED pc
    \/ WallTick /\ UNCHANGED pc

\* The clock of the Common singleton under any order of calls.
SpecClock == Init /\ [][NextClock]_vars

\* ------------------------------------------- the program as index.ts runs it
\* The DOMContentLoaded handler: app.init('webgl-canvas'); an error thrown
\* there ends the handler.
Boot_init(host) ==
    /\ pc = "boot"
    /\ WebGLApp_init([kind |-> "id", ref |-> "webgl-canvas"], host)
    /\ pc' = IF thrown' = "" THEN "inited" ELSE "aborted"

\* ... then app.setup() ...
Boot_setup ==
    /\ pc = "inited"
    /\ WebGLApp_setup
    /\ pc' = "setup"

\* ... then app.render().
Boot_render ==
    /\ pc = "setup"
    /\ WebGLApp_render("call")
    /\ pc' = "done"

HandlerOver == pc \in {"done", "aborted"}

NextApp ==
    \/ \E host \in InitHosts : Boot_init(host)
    \/ Boot_setup
    \/ Boot_render
    \/ HandlerOver /\ FrameCallback /\ UNCHANGED pc
    \/ HandlerOver /\ (\E inner \in WinSizes : WindowResize(inner)) /\ UNCHANGED pc
    \/ HandlerOver /\ (\E v \in SliderValues : Gui_onChange(v)) /\ UNCHANGED pc
    \/ WallTick /\ UNCHANGED pc

\* The page as shipped: init, setup and render once, in that order, then
\* animation frames, window resizes and slider changes.
SpecApp == Init /\ [][NextApp]_vars

\* ----------------------------------------------------------------- Pointer
\* Exact arithmetic on JavaScript numbers: a rational <<n, d>>, d > 0.
RECURSIVE Gcd(_, _)
Gcd(a, b) == IF b = 0 THEN a ELSE Gcd(b, a % b)
Abs(n) == IF n < 0 THEN -n ELSE n
Rat(n, d) == LET g == Gcd(Abs(n), d) IN << n \div g, d \div g >>
RatTimes(r, k) == Rat(r[1] * k, r[2])
RatPlus(r, k) == Rat(r[1] + k * r[2], r[2])
RatNeg(r) == << -r[1], r[2] >>
RatMinus(r, q) == Rat(r[1] * q[2] - q[1] * r[2], r[2] * q[2])

\* coordsX = (x / width) * 2 - 1
NormalizeX(x, width) == RatPlus(RatTimes(Rat(x, width), 2), -1)

NormalizeY_noFlip(y, height) == RatPlus(RatTimes(Rat(y, height), 2), -1)

\* coordsY = -(y / height) * 2 + 1
NormalizeY(y, height) == RatPlus(RatTimes(RatNeg(Rat(y, height)), 2), 1)

\* setTimeout hands out an id no pending timer (nor the stored one) holds.
NewTimerId(pendingTimers, stored) ==
    CHOOSE i \in 1..(Cardinality(pendingTimers) + 2) :
        /\ \A t \in pendingTimers : t.id # i
        /\ stored # Some(i)
        /\ \A j \in 1..(i - 1) : (\E t \in pendingTimers : t.id = j) \/ stored = Some(j)

ClearTimeout_none(pendingTimers, stored) == pendingTimers

\* if (this.timer) clearTimeout(this.timer)
ClearTimeout(pendingTimers, stored) ==
    IF stored = Null THEN pendingTimers
    ELSE {t \in pendingTimers : t.id # stored[1]}

\* setCoords with the canvas test made after the flag and the timer are set.
Pointer_setCoords_lateGuard(x, y) ==
    LET cleared == ClearTimeout(timers, timer)
        id == NewTimerId(cleared, timer)
    IN /\ pointerMoved' = TRUE
       /\ timer' = Some(id)
       /\ timers' = cleared \cup {[id |-> id, due |-> tnow + DecayMs]}
       /\ IF canvas = "null"
          THEN /\ coords' = coords
               /\ hist' = [hist EXCEPT !.nullCall = TRUE]
          ELSE /\ coords' = << NormalizeX(x, dims[canvas][1]),
                               NormalizeY(y, dims[canvas][2]) >>
               /\ hist' = [hist EXCEPT !.prevMoveAt = hist.lastMoveAt,
                                       !.lastMoveAt = tnow, !.moved = TRUE,
                                       !.raw = <<x, y>>, !.rawDim = dims[canvas]]

\* Pointer.setCoords(x, y)
Pointer_setCoords(x, y) ==
    IF canvas = "null"
    THEN /\ UNCHANGED << pointerMoved, coords, timer, timers >>
         /\ hist' = [hist EXCEPT !.nullCall = TRUE]
    ELSE LET cleared == ClearTimeout(timers, timer)
             id == NewTimerId(cleared, timer)
         IN /\ coords' = << NormalizeX(x, dims[canvas][1]),
                            NormalizeY(y, dims[canvas][2]) >>
            /\ pointerMoved' = TRUE
            /\ timer' = Some(id)
            /\ timers' = cleared \cup {[id |-> id, due |-> tnow + DecayMs]}
            /\ hist' = [hist EXCEPT !.prevMoveAt = hist.lastMoveAt,
                                    !.lastMoveAt = tnow, !.moved = TRUE,
                                    !.raw = <<x, y>>, !.rawDim = dims[canvas]]

\* Pointer.update(): diff and prevCoords after the call.
Pointer_update ==
    [diff |-> << RatMinus(coords[1], prevCoords[1]),
                 RatMinus(coords[2], prevCoords[2]) >>,
     prevCoords |-> coords]

\* The pointer events the host delivers: client coordinates, and page
\* coordinates that differ from them by the scroll offset.
ClientPoints == { <<0, 0>>, <<1, 1>>, <<2, 1>>, <<2, 2>> }
Scrolls == {0, 2}
PointerKinds == { [pointerType |-> "mouse", isPrimary |-> TRUE],
                  [pointerType |-> "touch", isPrimary |-> TRUE],
                  [pointerType |-> "touch", isPrimary |-> FALSE] }
PointerEvents ==
    { [pointerType |-> k.pointerType, isPrimary |-> k.isPrimary,
       clientX |-> c[1], clientY |-> c[2],
       pageX |-> c[1] + sc, pageY |-> c[2] + sc] :
         k \in PointerKinds, c \in ClientPoints, sc \in Scrolls }

\* The raw coordinates onPointerMove passes to setCoords.
MoveX(e) == IF e.pointerType = "touch" /\ e.isPrimary THEN e.pageX ELSE e.clientX
MoveY(e) == IF e.pointerType = "touch" /\ e.isPrimary THEN e.pageY ELSE e.clientY

pointerRest == << canvas, gl, running, previousTime, time, timeScale,
                  prevCoords, diff, plane, shaderProgram, now, tnow, win, dims,
                  pending, listening, frameVars, thrown, sp, util >>

\* Pointer.onPointerMove(e), as the 'pointermove' listener.
Pointer_onPointerMove(e) ==
    /\ listening
    /\ Pointer_setCoords(MoveX(e), MoveY(e))
    /\ UNCHANGED pointerRest

\* Pointer.onPointerDown(e), as the 'pointerdown' listener.
Pointer_onPointerDown(e) ==
    /\ listening
    /\ IF e.pointerType # "touch" \/ ~e.isPrimary
       THEN UNCHANGED << pointerMoved, coords, timer, timers, hist >>
       ELSE Pointer_setCoords(e.pageX, e.pageY)
    /\ UNCHANGED pointerRest

\* Pointer.setCoords(x, y) called directly on the singleton, outside the
\* DOMContentLoaded handler.
CallSetCoords(p) ==
    /\ pc \in {"boot", "done", "aborted"}
    /\ Pointer_setCoords(p[1], p[2])
    /\ UNCHANGED pointerRest

\* The host runs the callback of a timer that is due.
TimerFire ==
    \E t \in timers :
        /\ t.due <= tnow
        /\ pointerMoved' = FALSE
        /\ timers' = timers \ {t}
        /\ UNCHANGED << commonVars, coords, prevCoords, diff, timer, outputVars,
                        now, tnow, win, dims, pending, listening, frameVars,
                        thrown, hist, sp, util >>

Min(a, b) == IF a < b THEN a ELSE b
NextDue == IF timers = {} THEN tnow + TickMs
           ELSE CHOOSE d \in {t.due : t \in timers} : \A t \in timers : d <= t.due

\* The timer clock advances, by TickMs or up to the next timer that falls
\* due; a due timer runs before the clock moves on.
TimerTick ==
    /\ \A t \in timers : t.due > tnow
    /\ Min(tnow + TickMs, NextDue) <= MaxTimer
    /\ tnow' = Min(tnow + TickMs, NextDue)
    /\ UNCHANGED << commonVars, pointerVars, outputVars, now, win, dims,
                    pending, timers, listening, frameVars, thrown, hist, sp, util >>

NextPointer ==
    \/ \E host \in InitHosts : Boot_init(host)
    \/ Boot_setup
    \/ Boot_render
    \/ HandlerOver /\ (\E inner \in WinSizes : WindowResize(inner)) /\ UNCHANGED pc
    \/ HandlerOver /\ (\E e \in PointerEvents : Pointer_onPointerMove(e)) /\ UNCHANGED pc
    \/ HandlerOver /\ (\E e \in PointerEvents : Pointer_onPointerDown(e)) /\ UNCHANGED pc
    \/ (\E p \in ClientPoints : CallSetCoords(p)) /\ UNCHANGED pc
    \/ TimerFire /\ UNCHANGED pc
    \/ TimerTick /\ UNCHANGED pc

\* The page as shipped with pointer input and the decay timer, before its
\* first animation frame.
SpecPointer == Init /\ [][NextPointer]_vars

NextInput ==
    \/ \E host \in InitHosts : Boot_init(host)
    \/ Boot_setup
    \/ Boot_render
    \/ HandlerOver /\ FrameCallback /\ UNCHANGED pc
    \/ HandlerOver /\ (\E e \in PointerEvents : Pointer_onPointerMove(e)) /\ UNCHANGED pc
    \/ HandlerOver /\ (\E e \in PointerEvents : Pointer_onPointerDown(e)) /\ UNCHANGED pc

\* The page as shipped with pointer input and animation frames, at one
\* instant of both clocks.
SpecInput == Init /\ [][NextInput]_vars

\* ------------------------------------------ ShaderProgram on its own
\* Optional array arguments of up to MaxLen items, or absent.
Names(prefix, n) == [i \in 1..n |-> << prefix, i >>]
OptArrays(prefix) == {Absent} \cup { Arr(Names(prefix, n)) : n \in 0..MaxLen }

\* The descriptors `new ShaderProgram(gl, option)` is called with.
\* The update-function tags of a type array: plain and matrix-shaped ones.
Tag(i) == IF i % 2 = 0 THEN "uniformMatrix4fv" ELSE "uniform1f"
TypeArrays == {Absent} \cup { Arr([i \in 1..n |-> Tag(i)]) : n \in 0..MaxLen }

ProgramOptions ==
    [attribute : OptArrays("a"), stride : OptArrays("s"),
     uniform : OptArrays("u"), type : TypeArrays,
     tfv : {Absent, Arr(<<>>), Arr(Names("v", 1))}]

\* The contexts it is called on: how the compiler, the linker and the
\* location lookups answer.
ProgramHosts ==
    InitHosts \cup { [HostOk EXCEPT !.webgl2 = TRUE],
                     [HostOk EXCEPT !.resolves = FALSE],
                     [HostOk EXCEPT !.link = "null"] }

\* The descriptor and the context of one constructor call; the Common
\* singleton is as Common.init leaves it with a canvas that yields a context.
InitProgram ==
    /\ canvas = "cA" /\ gl = GetContext("cA") /\ running = FALSE
    /\ previousTime = 0 /\ time = 0 /\ timeScale = ScaleDen
    /\ pointerMoved = FALSE
    /\ coords = <<Zero, Zero>> /\ prevCoords = <<Zero, Zero>> /\ diff = <<Zero, Zero>>
    /\ timer = Null
    /\ plane = Null /\ shaderProgram = Null
    /\ now = StartNow /\ tnow = 0
    /\ win = DefaultDim
    /\ dims = [c \in CanvasEls |-> DefaultDim]
    /\ pending = 0 /\ timers = {} /\ listening = FALSE
    /\ invoked = "none" /\ renderTrace = <<>> /\ glLog = <<>> /\ errLog = ""
    /\ frameNo = 0 /\ thrown = ""
    /\ hist = HistInit
    /\ sp \in [state : {"args"}, option : ProgramOptions, host : ProgramHosts]
    /\ util = UtilIdle
    /\ pc = "boot"

\* new ShaderProgram(gl, option): the calls made on the context, the error
\* thrown and the uniform / type fields as the constructor leaves them.
Construct ==
    /\ sp.state = "args"
    /\ LET r == ShaderProgram_constructor("glA", sp.option, sp.host)
       IN sp' = [state |-> "done", option |-> sp.option, host |-> sp.host,
                 threw |-> r.threw, calls |-> r.calls, stored |-> r.stored,
                 built |-> r.obj # Null, obj |-> r.obj]
    /\ UNCHANGED << commonVars, pointerVars, outputVars, now, tnow, win, dims,
                    pending, timers, listening, frameVars, thrown, hist, util, pc >>

\* The lengths of the value lists setUniform is called with.
ValueCounts == 0..MaxLen

\* program.setUniform(value) on the instance the constructor produced.
PushUniforms(n) ==
    /\ sp.state = "done" /\ sp.built
    /\ LET r == ShaderProgram_setUniform(sp.obj[1], n)
       IN sp' = [state |-> "pushed", option |-> sp.option, host |-> sp.host,
                 obj |-> sp.obj, nvalues |-> n,
                 threw |-> r.threw, calls |-> r.calls]
    /\ UNCHANGED << commonVars, pointerVars, outputVars, now, tnow, win, dims,
                    pending, timers, listening, frameVars, thrown, hist, util, pc >>

\* output.init() on the context the constructor call is made on.
CallOutputInit ==
    /\ sp.state # "none"
    /\ LET oi == Output_init(gl, sp.host)
       IN /\ plane' = oi.plane
          /\ shaderProgram' = oi.shaderProgram
          /\ thrown' = oi.threw
          /\ hist' = [hist EXCEPT !.outInitOk = @ \/ oi.threw = ""]
    /\ UNCHANGED << commonVars, pointerVars, now, tnow, win, dims, pending, timers,
                    listening, frameVars, sp, util, pc >>

NextProgram ==
    \/ Construct
    \/ CallOutputInit
    \/ \E n \in ValueCounts : PushUniforms(n)

SpecProgram == InitProgram /\ [][NextProgram]_vars

\* ------------------------------------------- WebGLUtility render targets
\* A bundle is null or a record whose fields are "absent" (no such
\* property), "null" or a handle.  The handles of the one bundle followed
\* here are named after their kind; live is the set of handles the context
\* holds, so gl.isFramebuffer, isRenderbuffer and isTexture answer IsValid.
IsValid(v, live) == v \in live

Bundle(f, r, t) == Some([framebuffer |-> f, renderbuffer |-> r, texture |-> t])

\* WebGLUtility declares no static member `buffers`.
WebGLUtility_buffers == "undefined"

\* The extension record getWebGLExtensions returns: each extension present
\* or null.
WebGLUtility_getWebGLExtensions(uint, float, half) ==
    Some([elementIndexUint |-> uint, textureFloat |-> float, textureHalfFloat |-> half])

\* The texParameteri and attach calls that end both createFramebuffer bodies.
TextureSetup(filter) ==
    << Call("texParameteri", "TEXTURE_MAG_FILTER", <<>>) ,
       Call("texParameteri", "TEXTURE_MIN_FILTER", <<>>),
       Call("texParameteri", "TEXTURE_WRAP_S", <<>>),
       Call("texParameteri", "TEXTURE_WRAP_T", <<>>),
       Call("framebufferTexture2D", filter, <<>>),
       Call("bindTexture", "null", <<>>) >>

\* createFramebuffer(gl, width, height); ok tells whether the context
\* hands out objects (a lost context hands out null for each).
WebGLUtility_createFramebuffer(ok, live, width, height) ==
    LET create == << Call("createFramebuffer", "", <<>>),
                     Call("createRenderbuffer", "", <<>>),
                     Call("createTexture", "", <<>>) >>
    IN IF ~ok
       THEN [threw |-> "", calls |-> create, live |-> live,
             bundle |-> Bundle("null", "null", "null")]
       ELSE [threw |-> "",
             calls |-> create
                       \o << Call("bindFramebuffer", "fb", <<>>),
                             Call("bindRenderbuffer", "rb", <<>>),
                             Call("renderbufferStorage", "DEPTH_COMPONENT16", <<width, height>>),
                             Call("framebufferRenderbuffer", "rb", <<>>),
                             Call("bindTexture", "tex", <<>>),
                             Call("texImage2D", "UNSIGNED_BYTE", <<width, height>>) >>
                       \o TextureSetup("LINEAR")
                       \o << Call("bindRenderbuffer", "null", <<>>),
                             Call("bindFramebuffer", "null", <<>>) >>,
             live |-> live \cup {"fb", "rb", "tex"},
             bundle |-> Bundle("fb", "rb", "tex")]

ReleaseStep_keepsField(isOp, bindOp, delOp, v, live) ==
    IF v = "absent" THEN [calls |-> <<>>, field |-> v, live |-> live]
    ELSE IF ~IsValid(v, live)
    THEN [calls |-> << Call(isOp, v, <<>>) >>, field |-> v, live |-> live]
    ELSE [calls |-> << Call(isOp, v, <<>>), Call(bindOp, "null", <<>>),
                       Call(delOp, v, <<>>) >>,
          field |-> v, live |-> live \ {v}]

\* One block of deleteFramebuffer: hasOwnProperty and the validity query,
\* then unbind, delete and null the field.
ReleaseStep(isOp, bindOp, delOp, v, live) ==
    IF v = "absent" THEN [calls |-> <<>>, field |-> v, live |-> live]
    ELSE IF ~IsValid(v, live)
    THEN [calls |-> << Call(isOp, v, <<>>) >>, field |-> v, live |-> live]
    ELSE [calls |-> << Call(isOp, v, <<>>), Call(bindOp, "null", <<>>),
                       Call(delOp, v, <<>>) >>,
          field |-> "null", live |-> live \ {v}]

\* deleteFramebuffer(gl, obj): the bundle and the context after the call.
WebGLUtility_deleteFramebuffer(obj, live) ==
    IF obj = Null
    THEN [threw |-> "", calls |-> <<>>, live |-> live, bundle |-> obj]
    ELSE LET f == ReleaseStep("isFramebuffer", "bindFramebuffer", "deleteFramebuffer",
                              obj[1].framebuffer, live)
             r == ReleaseStep("isRenderbuffer", "bindRenderbuffer", "deleteRenderbuffer",
                              obj[1].renderbuffer, f.live)
             t == ReleaseStep("isTexture", "bindTexture", "deleteTexture",
                              obj[1].texture, r.live)
         IN [threw |-> "", calls |-> f.calls \o r.calls \o t.calls,
             live |-> t.live, bundle |-> Bundle(f.field, r.field, t.field)]

\* One block of resizeFramebuffer: hasOwnProperty and the validity query,
\* then a bind of `(this as any).buffers.<field>` and the storage call.
\* Reading a field of the undefined `buffers` raises a TypeError.
ResizeStep(isOp, bindOp, field, storage, v, live) ==
    IF v = "absent" THEN [threw |-> "", calls |-> <<>>]
    ELSE IF ~IsValid(v, live)
    THEN [threw |-> "", calls |-> << Call(isOp, v, <<>>) >>]
    ELSE IF WebGLUtility_buffers = "undefined"
    THEN [threw |-> "TypeError", calls |-> << Call(isOp, v, <<>>) >>]
    ELSE [threw |-> "",
          calls |-> << Call(isOp, v, <<>>),
                       Call(bindOp, WebGLUtility_buffers[field], <<>>),
                       storage >>]

\* resizeFramebuffer(gl, obj, width, height): the calls it makes and the
\* error it raises; it assigns nothing.
WebGLUtility_resizeFramebuffer(obj, live, width, height) ==
    IF obj = Null THEN [threw |-> "", calls |-> <<>>]
    ELSE LET r == ResizeStep("isRenderbuffer", "bindRenderbuffer", "renderbuffer",
                             Call("renderbufferStorage", "DEPTH_COMPONENT16",
                                  <<width, height>>),
                             obj[1].renderbuffer, live)
             t == ResizeStep("isTexture", "bindTexture", "texture",
                             Call("texImage2D", "UNSIGNED_BYTE", <<width, height>>),
                             obj[1].texture, live)
         IN IF r.threw # "" THEN r
            ELSE [threw |-> t.threw, calls |-> r.calls \o t.calls]

\* Device.isMobile() / Device.isIpad(): what the device detection answers.
Device_isMobile(device) == device.mobile
Device_isIpad(device) == device.ipad

\* The storage format chosen without asking the device detection.
FloatFormat_preferFloat(ext, device) ==
    IF ext = Null \/ (~ext[1].textureFloat /\ ~ext[1].textureHalfFloat)
    THEN [threw |-> "float texture not supported", flg |-> "none"]
    ELSE IF ext[1].textureFloat THEN [threw |-> "", flg |-> "FLOAT"]
    ELSE [threw |-> "", flg |-> "HALF_FLOAT_OES"]

\* The storage format createFramebufferFloat selects, or the error it throws.
FloatFormat(ext, device) ==
    IF ext = Null \/ (~ext[1].textureFloat /\ ~ext[1].textureHalfFloat)
    THEN [threw |-> "float texture not supported", flg |-> "none"]
    ELSE IF Device_isMobile(device) \/ Device_isIpad(device)
    THEN IF ext[1].textureHalfFloat
         THEN [threw |-> "", flg |-> "HALF_FLOAT_OES"]
         ELSE [threw |-> "textureHalfFloat is not supported", flg |-> "none"]
    ELSE IF ext[1].textureFloat THEN [threw |-> "", flg |-> "FLOAT"]
    ELSE IF ext[1].textureHalfFloat THEN [threw |-> "", flg |-> "HALF_FLOAT_OES"]
    ELSE [threw |-> "No valid float texture format supported", flg |-> "none"]

\* createFramebufferFloat(gl, ext, width, height).
WebGLUtility_createFramebufferFloat(ext, device, ok, live, width, height) ==
    LET fmt == FloatFormat(ext, device)
        create == << Call("createFramebuffer", "", <<>>),
                     Call("createTexture", "", <<>>) >>
    IN IF fmt.threw # ""
       THEN [threw |-> fmt.threw, calls |-> <<>>, live |-> live, bundle |-> Null,
             flg |-> fmt.flg]
       ELSE IF ~ok
       THEN [threw |-> "", calls |-> create, live |-> live,
             bundle |-> Bundle("null", "absent", "null"), flg |-> fmt.flg]
       ELSE [threw |-> "",
             calls |-> create
                       \o << Call("bindFramebuffer", "fb", <<>>),
                             Call("bindTexture", "tex", <<>>),
                             Call("texImage2D", fmt.flg, <<width, height>>) >>
                       \o TextureSetup("NEAREST")
                       \o << Call("bindFramebuffer", "null", <<>>) >>,
             live |-> live \cup {"fb", "tex"},
             bundle |-> Bundle("fb", "absent", "tex"), flg |-> fmt.flg]

WebGLUtility_createIboInt_late(ext, ok) ==
    IF ~ok
    THEN [threw |-> "Failed to create buffer",
          calls |-> << Call("createBuffer", "", <<>>) >>, handle |-> "null"]
    ELSE IF ext = Null \/ ~ext[1].elementIndexUint
    THEN [threw |-> "element index Uint not supported",
          calls |-> << Call("createBuffer", "", <<>>) >>, handle |-> "null"]
    ELSE [threw |-> "",
          calls |-> << Call("createBuffer", "", <<>>),
                       Call("bindBuffer", "ELEMENT_ARRAY_BUFFER", <<>>),
                       Call("bufferData", "Uint32Array", <<>>),
                       Call("bindBuffer", "null", <<>>) >>,
          handle |-> "ibo"]

\* createIboInt(gl, ext, data).
WebGLUtility_createIboInt(ext, ok) ==
    IF ext = Null \/ ~ext[1].elementIndexUint
    THEN [threw |-> "element index Uint not supported", calls |-> <<>>, handle |-> "null"]
    ELSE IF ~ok
    THEN [threw |-> "Failed to create buffer",
          calls |-> << Call("createBuffer", "", <<>>) >>, handle |-> "null"]
    ELSE [threw |-> "",
          calls |-> << Call("createBuffer", "", <<>>),
                       Call("bindBuffer", "ELEMENT_ARRAY_BUFFER", <<>>),
                       Call("bufferData", "Uint32Array", <<>>),
                       Call("bindBuffer", "null", <<>>) >>,
          handle |-> "ibo"]

\* The capability records and devices the utilities are called with, and
\* the sizes of the render targets.
Exts == {Null} \cup { WebGLUtility_getWebGLExtensions(u, f, h) :
                        u \in BOOLEAN, f \in BOOLEAN, h \in BOOLEAN }
Devices == [mobile : BOOLEAN, ipad : BOOLEAN]
TargetSizes == { <<1, 1>>, <<2, 1>> }

NoCall == [op |-> "none", calls |-> <<>>, threw |-> "", flg |-> "none",
           size |-> <<0, 0>>, before |-> Null, liveBefore |-> {}]

InitUtility ==
    /\ canvas = "null" /\ gl = "null" /\ running = FALSE
    /\ previousTime = 0 /\ time = 0 /\ timeScale = ScaleDen
    /\ pointerMoved = FALSE
    /\ coords = <<Zero, Zero>> /\ prevCoords = <<Zero, Zero>> /\ diff = <<Zero, Zero>>
    /\ timer = Null
    /\ plane = Null /\ shaderProgram = Null
    /\ now = StartNow /\ tnow = 0
    /\ win = DefaultDim
    /\ dims = [c \in CanvasEls |-> DefaultDim]
    /\ pending = 0 /\ timers = {} /\ listening = FALSE
    /\ invoked = "none" /\ renderTrace = <<>> /\ glLog = <<>> /\ errLog = ""
    /\ frameNo = 0 /\ thrown = ""
    /\ hist = HistInit
    /\ sp = SpIdle
    /\ util \in [state : {"ready"}, ext : Exts, device : Devices, lost : {FALSE},
                 bundle : {Null}, live : {{}}, last : {NoCall}]
    /\ pc = "boot"

utilRest == << commonVars, pointerVars, outputVars, now, tnow, win, dims,
               pending, timers, listening, frameVars, thrown, hist, sp, pc >>

\* The record of a utility call just made.
Made(op, r, flg, size) ==
    [op |-> op, calls |-> r.calls, threw |-> r.threw, flg |-> flg, size |-> size,
     before |-> util.bundle, liveBefore |-> util.live]

\* bundle = WebGLUtility.createFramebuffer(gl, w, h)
CallCreateFramebuffer(size) ==
    /\ util.state = "ready"
    /\ LET r == WebGLUtility_createFramebuffer(~util.lost, util.live, size[1], size[2])
       IN util' = [util EXCEPT !.bundle = r.bundle, !.live = r.live,
                               !.last = Made("createFramebuffer", r, "none", size)]
    /\ UNCHANGED utilRest

\* bundle = WebGLUtility.createFramebufferFloat(gl, ext, w, h); a throw
\* leaves the caller's bundle as it was.
CallCreateFramebufferFloat(size) ==
    /\ util.state = "ready"
    /\ LET r == WebGLUtility_createFramebufferFloat(util.ext, util.device, ~util.lost,
                                                    util.live, size[1], size[2])
       IN util' = [util EXCEPT !.bundle = IF r.threw = "" THEN r.bundle ELSE @,
                               !.live = r.live,
                               !.last = Made("createFramebufferFloat", r, r.flg, size)]
    /\ UNCHANGED utilRest

\* WebGLUtility.resizeFramebuffer(gl, bundle, w, h)
CallResizeFramebuffer(size) ==
    /\ util.state = "ready"
    /\ LET r == WebGLUtility_resizeFramebuffer(util.bundle, util.live, size[1], size[2])
       IN util' = [util EXCEPT !.last = Made("resizeFramebuffer", r, "none", size)]
    /\ UNCHANGED utilRest

\* WebGLUtility.deleteFramebuffer(gl, bundle)
CallDeleteFramebuffer ==
    /\ util.state = "ready"
    /\ LET r == WebGLUtility_deleteFramebuffer(util.bundle, util.live)
       IN util' = [util EXCEPT !.bundle = r.bundle, !.live = r.live,
                               !.last = Made("deleteFramebuffer", r, "none", <<0, 0>>)]
    /\ UNCHANGED utilRest

\* WebGLUtility.createIboInt(gl, ext, data)
CallCreateIboInt ==
    /\ util.state = "ready"
    /\ LET r == WebGLUtility_createIboInt(util.ext, ~util.lost)
       IN util' = [util EXCEPT !.last = Made("createIboInt", r, "none", <<0, 0>>)]
    /\ UNCHANGED utilRest

\* The context is lost: every handle it held stops being valid and the
\* create calls hand out null from then on.
ContextLost ==
    /\ util.state = "ready" /\ ~util.lost
    /\ util' = [util EXCEPT !.lost = TRUE, !.live = {}, !.last = NoCall]
    /\ UNCHANGED utilRest

NextUtility ==
    \/ \E size \in TargetSizes : CallCreateFramebuffer(size)
    \/ \E size \in TargetSizes : CallCreateFramebufferFloat(size)
    \/ \E size \in TargetSizes : CallResizeFramebuffer(size)
    \/ CallDeleteFramebuffer
    \/ CallCreateIboInt
    \/ ContextLost

\* The WebGLUtility render-target and index-buffer helpers, called in any
\* order on one bundle.
SpecUtility == InitUtility /\ [][NextUtility]_vars

\* The host runs every requested animation frame eventually.
FairSpec == Spec /\ WF_vars(FrameCallback /\ UNCHANGED pc)

\* ================================================================== claims
RenderInvocation == RenderCall \/ FrameCallback

\* C1: cancellation is one frame late.  A frame callback that runs after the
\* running flag went false still advances the clock and calls Output.update,
\* requests no further frame, and while the flag is false no step requests
\* one, so nothing follows the already requested callbacks.
C1_LateCancel ==
    [][ /\ (FrameCallback /\ ~running) =>
              /\ pending' = pending - 1
              /\ renderTrace' = << "Common.update", "Output.update" >>
              /\ previousTime' = now
        /\ ~running => pending' <= pending ]_vars

C1_Witness ==
    /\ invoked = "callback" /\ ~running /\ pending = 0
    /\ renderTrace = << "Common.update", "Output.update" >>
    /\ previousTime = now

\* C2: no frame failure stops the loop.  While the running flag is true, a
\* render invocation requests exactly one frame (first thing, whatever its
\* draw does), and with a fair host a requested frame eventually runs.
C2_LoopSurvives ==
    /\ [][ /\ (FrameCallback /\ running) =>
                 /\ pending' = pending
                 /\ Head(renderTrace') = "requestAnimationFrame"
           /\ (RenderCall /\ running) => pending' = pending + 1 ]_vars
    /\ \A k \in 0..(FrameMod - 1) :
           (running /\ pending > 0 /\ frameNo = k) ~> (~running \/ frameNo # k)

C2_Witness ==
    /\ invoked = "callback" /\ running /\ pending > 0
    /\ errLog = "Error during render"

\* C3: Output.update with a prerequisite missing (context, canvas, program or
\* geometry) issues no call on the context, reports the error and returns.
C3_SkipsFrame ==
    [][ ( /\ RenderInvocation
          /\ (gl = "null" \/ canvas = "null" \/ shaderProgram = Null \/ plane = Null) )
        => (glLog' = <<>> /\ errLog' = "missing" /\ thrown' = "") ]_vars

C3_Witness ==
    /\ invoked = "call" /\ canvas = "null" /\ gl = "null"
    /\ errLog = "missing" /\ glLog = <<>>

\* The calls of one complete draw, in order.
FullDrawOps ==
    << "bindFramebuffer", "viewport", "clear", "useProgram", "bindBuffer",
       "enableVertexAttribArray", "vertexAttribPointer",
       "uniform1f", "uniform2fv", "uniform2fv", "drawArrays" >>

OneDraw(log) ==
    /\ [i \in 1..Len(log) |-> log[i].op] = FullDrawOps
    /\ log[Len(log)] = Call("drawArrays", "TRIANGLE_STRIP", <<0, 4>>)

\* C4: once Output.init has succeeded, every Output.update issues exactly one
\* draw call, TRIANGLE_STRIP from vertex 0 with 4 vertices, after the bind,
\* viewport, clear, program activation, buffer bind and uniform push.
C4_EveryUpdateDraws ==
    [][ (RenderInvocation /\ hist.outInitOk) => OneDraw(glLog') ]_vars

C4_Witness ==
    /\ hist.outInitOk /\ invoked = "callback"
    /\ Len(glLog) = Len(FullDrawOps)
    /\ glLog[Len(glLog)] = Call("drawArrays", "TRIANGLE_STRIP", <<0, 4>>)

\* C5: pointer decay.  After a handled movement event pointerMoved is true
\* for 100 ms and false once 100 ms have passed without another event; an
\* event restarts the window, so no timer of an earlier event ends it early.
C5_PointerDecay ==
    hist.lastMoveAt >= 0 =>
        /\ tnow < hist.lastMoveAt + DecayMs => pointerMoved
        /\ tnow > hist.lastMoveAt + DecayMs => ~pointerMoved

C5_Witness ==
    /\ hist.prevMoveAt >= 0
    /\ hist.lastMoveAt > hist.prevMoveAt
    /\ tnow >= hist.prevMoveAt + DecayMs
    /\ tnow < hist.lastMoveAt + DecayMs
    /\ pointerMoved

\* C6: on every frame tick of WebGLApp.render, diff becomes the current
\* coordinates minus those snapshotted at the previous frame, and prevCoords
\* becomes the current coordinates.
C6_DiffPerFrame ==
    [][ RenderInvocation =>
          /\ diff' = Pointer_update.diff
          /\ prevCoords' = Pointer_update.prevCoords ]_vars

\* C7: pointer normalization.  setCoords(x, y) on a canvas W x H stores
\* (2x/W - 1, 1 - 2y/H): (0, 0) gives (-1, 1), (W, H) gives (1, -1) and
\* (W/2, H/2) gives (0, 0), for the canvas size at the time of the call.
C7_Normalization ==
    hist.lastMoveAt >= 0 =>
        LET x == hist.raw[1]
            y == hist.raw[2]
            W == hist.rawDim[1]
            H == hist.rawDim[2]
            cx == coords[1]
            cy == coords[2]
        IN /\ cx[1] * W = (2 * x - W) * cx[2]
           /\ cy[1] * H = (H - 2 * y) * cy[2]
           /\ (x = 0 /\ y = 0) => coords = << <<-1, 1>>, <<1, 1>> >>
           /\ (x = W /\ y = H) => coords = << <<1, 1>>, <<-1, 1>> >>
           /\ (2 * x = W /\ 2 * y = H) => coords = << Zero, Zero >>

C7_Witness ==
    /\ hist.lastMoveAt >= 0
    /\ hist.rawDim = <<4, 4>> /\ hist.raw = <<4, 4>>
    /\ coords = << <<1, 1>>, <<-1, 1>> >>

\* C8: clock scaling.  From a Common.setup() that seeded the clock on, with
\* timeScale held at s, the time accumulated is s times the sum of the
\* wall-clock deltas of the updates (the sum itself for s = 1, nothing for
\* s = 0, twice the sum for s = 2); a change of timeScale leaves the time
\* accumulated so far alone and scales the deltas of the later updates.
C8_ClockScaling ==
    /\ [](hist.effective => time = hist.t0 + timeScale * hist.sumD)
    /\ [][timeScale' # timeScale => time' = time]_vars

C8_Witness ==
    /\ hist.effective /\ hist.held /\ hist.lastCall = "update"
    /\ hist.t0 = 0
    /\ timeScale = 2 * ScaleDen
    /\ hist.sumD = MaxElapsed
    /\ time = 2 * ScaleDen * MaxElapsed

\* C9: with timeScale >= 0 the accumulated time never decreases, and after an
\* update previousTime is the wall-clock reading that update took.
C9_ClockInvariant ==
    /\ [][time' >= time]_vars
    /\ [](hist.lastCall = "update" => previousTime = hist.lastCallAt)

C9_Witness ==
    /\ hist.lastCall = "update" /\ previousTime = now /\ now > StartNow
    /\ time > 0 /\ timeScale > 0

\* The descriptor pairing the constructor requires, read off the arguments.
Given(v) == v # Absent
BadPairing(o) ==
    \/ ~Given(o.attribute) \/ ~Given(o.stride)
    \/ Len(o.attribute.items) # Len(o.stride.items)
    \/ Given(o.uniform) # Given(o.type)
    \/ Given(o.uniform) /\ Given(o.type) /\ Len(o.uniform.items) # Len(o.type.items)

\* C10: the ShaderProgram constructor validates the pairing before any call
\* on the context.  It throws with no call made whenever attribute and stride
\* are not arrays of equal length, or exactly one of uniform / type is given,
\* or uniform and type differ in length; with uniform and type both absent
\* the pairing check passes and both are stored as null.
C10_PairingFirst ==
    sp.state = "done" =>
        /\ BadPairing(sp.option) =>
              /\ sp.threw \in {"attribute or stride does not match",
                               "uniform or type does not match"}
              /\ sp.calls = <<>>
              /\ ~sp.built
        /\ ~BadPairing(sp.option) =>
              sp.threw \notin {"attribute or stride does not match",
                               "uniform or type does not match"}
        /\ (~Given(sp.option.uniform) /\ ~Given(sp.option.type)) =>
              /\ sp.stored = [uniform |-> Absent, type |-> Absent]
              /\ sp.threw # "uniform or type does not match"

C10_Witness ==
    /\ sp.state = "done"
    /\ Given(sp.option.uniform) /\ ~Given(sp.option.type)
    /\ Len(sp.option.attribute.items) = MaxLen
    /\ Len(sp.option.stride.items) = MaxLen
    /\ sp.host = HostOk
    /\ sp.threw = "uniform or type does not match" /\ sp.calls = <<>>

\* The number of uniforms the instance declared (none declared counts 0).
DeclaredCount(p) == IF IsArray(p.uniform) THEN Len(p.uniform.items) ELSE 0

\* C11 as stated: setUniform with a value list whose length differs from the
\* declared uniform count always throws and invokes no uniform update
\* function on the context.
C11_MismatchAlwaysThrows ==
    (sp.state = "pushed" /\ sp.nvalues # DeclaredCount(sp.obj[1])) =>
        (sp.threw # "" /\ sp.calls = <<>>)

\* C11 amended: on an instance that declared uniforms, setUniform with a
\* value list of another length throws and invokes no uniform update
\* function; on an instance that declared none, setUniform returns without
\* throwing and without a call, whatever the length of the value list.
C11_MismatchThrowsWhenDeclared ==
    sp.state = "pushed" =>
        /\ (IsArray(sp.obj[1].uniform) /\ sp.nvalues # Len(sp.obj[1].uniform.items)) =>
              (sp.threw = "value is an invalid" /\ sp.calls = <<>>)
        /\ ~IsArray(sp.obj[1].uniform) => (sp.threw = "" /\ sp.calls = <<>>)

C11_Witness ==
    /\ sp.state = "pushed"
    /\ IsArray(sp.obj[1].uniform)
    /\ Len(sp.obj[1].uniform.items) = MaxLen
    /\ sp.nvalues = MaxLen - 1
    /\ sp.threw = "value is an invalid" /\ sp.calls = <<>>

\* The delete calls in a call log.
Deletes(calls) ==
    { i \in 1..Len(calls) :
        calls[i].op \in {"deleteFramebuffer", "deleteRenderbuffer", "deleteTexture"} }

\* The fields of a bundle that hold a handle valid on the context.
BundleFields == {"framebuffer", "renderbuffer", "texture"}
ValidFields(obj, live) ==
    IF obj = Null THEN {} ELSE { k \in BundleFields : IsValid(obj[1][k], live) }

\* C12: deleteFramebuffer is idempotent.  A call deletes each valid handle of
\* the bundle exactly once, right after unbinding its target, and nulls that
\* field, leaving the other fields alone; a call that directly follows
\* another one on the same bundle deletes nothing and leaves the bundle as
\* it is; on a null bundle or one without a valid handle nothing is deleted.
C12_DeleteIdempotent ==
    [][ CallDeleteFramebuffer =>
          LET calls == util'.last.calls
              valid == ValidFields(util.bundle, util.live)
          IN /\ Cardinality(Deletes(calls)) = Cardinality(valid)
             /\ \A k \in valid :
                   /\ util'.bundle[1][k] = "null"
                   /\ \E i \in Deletes(calls) :
                         /\ calls[i].mode = util.bundle[1][k]
                         /\ calls[i - 1].mode = "null"
                   /\ ~IsValid(util.bundle[1][k], util'.live)
             /\ util.bundle # Null =>
                   \A k \in BundleFields \ valid : util'.bundle[1][k] = util.bundle[1][k]
             /\ util.bundle = Null => util'.bundle = Null /\ calls = <<>>
             /\ ValidFields(util'.bundle, util'.live) = {}
             /\ util.last.op = "deleteFramebuffer" =>
                   /\ Deletes(calls) = {}
                   /\ util'.bundle = util.bundle /\ util'.live = util.live ]_vars

C12_Witness ==
    /\ util.state = "ready"
    /\ util.last.op = "deleteFramebuffer"
    /\ util.last.before = Bundle("null", "null", "null")
    /\ util.bundle = Bundle("null", "null", "null")
    /\ util.last.calls # <<>> /\ Deletes(util.last.calls) = {}
    /\ ~util.lost

\* The binds and storage calls in a call log (validity queries left out).
Effects(calls) == SelectSeq(calls, LAMBDA c : c.op \notin {"isRenderbuffer", "isTexture"})

\* What a resize of the passed bundle does for one of its valid targets.
ResizeOf(bindOp, storageOp, fmt, handle, size) ==
    << Call(bindOp, handle, <<>>), Call(storageOp, fmt, size) >>

\* C13: resizeFramebuffer acts on the bundle passed to it.  For a bundle
\* with a valid renderbuffer and / or texture it rebinds exactly those
\* handles and reallocates their storage to width x height, leaves the
\* bundle's fields unchanged and raises nothing; for a null bundle or one
\* without a valid target it does nothing.
C13_ResizeActsOnBundle ==
    [][ \A size \in TargetSizes : CallResizeFramebuffer(size) =>
            LET valid == ValidFields(util.bundle, util.live)
                rb == IF "renderbuffer" \in valid
                      THEN ResizeOf("bindRenderbuffer", "renderbufferStorage",
                                    "DEPTH_COMPONENT16", util.bundle[1].renderbuffer, size)
                      ELSE <<>>
                tex == IF "texture" \in valid
                       THEN ResizeOf("bindTexture", "texImage2D", "UNSIGNED_BYTE",
                                     util.bundle[1].texture, size)
                       ELSE <<>>
            IN /\ util'.last.threw = ""
               /\ Effects(util'.last.calls) = rb \o tex
               /\ util'.bundle = util.bundle ]_vars

\* C14: createIboInt called with capabilities that are null or lack
\* elementIndexUint throws, before any buffer is created, bound or filled.
C14_IboIntNeedsCapability ==
    (util.state = "ready" /\ util.last.op = "createIboInt"
       /\ (util.ext = Null \/ ~util.ext[1].elementIndexUint)) =>
        /\ util.last.threw = "element index Uint not supported"
        /\ util.last.calls = <<>>

C14_Witness ==
    /\ util.state = "ready" /\ util.last.op = "createIboInt"
    /\ util.ext = WebGLUtility_getWebGLExtensions(FALSE, TRUE, TRUE)
    /\ ~util.lost
    /\ util.last.threw = "element index Uint not supported"
    /\ util.last.calls = <<>>

\* C15: every Common.init call whose argument resolves to no canvas throws
\* and acquires no drawing context, whatever the state of the singleton
\* (also after an earlier successful init); a call whose context
\* acquisition returns null throws as well.
C15_InitFailsHard ==
    /\ [](hist.lastInit.called /\ ~hist.lastInit.resolves => hist.lastInit.threw # "")
    /\ [][ \A arg \in InitArgs : CallCommonInit(arg) =>
             /\ Resolve(arg) = "null" => gl' = gl
             /\ (Resolve(arg) # "null" /\ GetContext(Resolve(arg)) = "null") =>
                   thrown' = "webgl not supported" ]_vars

\* C16: the drawing context is created once and never reassigned.  Once
\* Common.gl is non-null, no public operation changes Common.gl or
\* Common.canvas.
C16_ContextNeverReassigned ==
    [][ gl # "null" => (gl' = gl /\ canvas' = canvas) ]_vars

\* A wrapper that holds two compiled shaders and a linked program.
FullyLinked(p) ==
    /\ p.vertexShader = "VERTEX_SHADER" /\ p.fragmentShader = "FRAGMENT_SHADER"
    /\ p.program = "program"

\* The context compiles both shaders and links the program.
HostBuilds(host) == host.vs = "ok" /\ host.fs = "ok" /\ host.link = "ok"

\* C17: a program object is all-or-nothing.  createShader and createProgram
\* answer null exactly when the compile or link step fails; the constructor
\* throws whenever a shader fails to compile or the link fails, so an
\* instance exists only with two compiled shaders and a linked program; and
\* Output.shaderProgram is null or such a wrapper.
C17_AllOrNothing ==
    /\ \A o \in Outcomes :
          /\ (WebGLUtility_createShader("VERTEX_SHADER", o).handle = "null") = (o # "ok")
          /\ \A tf \in BOOLEAN :
                (WebGLUtility_createProgram(tf, o).handle = "null") = (o # "ok")
    /\ sp.state = "done" =>
          /\ sp.built = (sp.threw = "")
          /\ (~BadPairing(sp.option) /\ ~HostBuilds(sp.host)) =>
                sp.threw \in {"shader compilation failed",
                              "shader program creation failed"}
          /\ sp.built => (HostBuilds(sp.host) /\ FullyLinked(sp.obj[1]))
    /\ shaderProgram = Null \/ (HostBuilds(sp.host) /\ FullyLinked(shaderProgram[1]))
    /\ (thrown # "" /\ plane # Null) => ~HostBuilds(sp.host)

C17_Witness ==
    /\ sp.state = "done" /\ ~BadPairing(sp.option)
    /\ sp.host = [HostOk EXCEPT !.link = "fail"]
    /\ sp.threw = "shader program creation failed" /\ ~sp.built
    /\ plane # Null /\ shaderProgram = Null
    /\ thrown = "shader program creation failed"

\* C18: createFramebufferFloat throws 'float texture not supported' when the
\* capability record offers neither float format; every throw comes before
\* any framebuffer or texture is created; when it returns, the format is
\* half-float on a mobile or iPad device, and on other devices full-float
\* when available and half-float otherwise, the format's extension is
\* present, and the texture storage is allocated with that format.
HasFloat == util.ext # Null /\ util.ext[1].textureFloat
HasHalfFloat == util.ext # Null /\ util.ext[1].textureHalfFloat
OnMobile == Device_isMobile(util.device) \/ Device_isIpad(util.device)
StorageFormats ==
    { util.last.calls[i].mode : i \in { j \in DOMAIN util.last.calls :
                                             util.last.calls[j].op = "texImage2D" } }

C18_FloatFormatSelection ==
    util.last.op = "createFramebufferFloat" =>
        /\ (~HasFloat /\ ~HasHalfFloat) => util.last.threw = "float texture not supported"
        /\ util.last.threw # "" => util.last.calls = <<>>
        /\ util.last.threw = "" =>
              /\ OnMobile => util.last.flg = "HALF_FLOAT_OES"
              /\ ~OnMobile => util.last.flg = IF HasFloat THEN "FLOAT" ELSE "HALF_FLOAT_OES"
              /\ util.last.flg = "FLOAT" => HasFloat
              /\ util.last.flg = "HALF_FLOAT_OES" => HasHalfFloat
              /\ util.last.flg \in {"FLOAT", "HALF_FLOAT_OES"}
              /\ StorageFormats \subseteq {util.last.flg}

\* A mobile device offering both formats was given a half-float target.
C18_Witness ==
    /\ util.last.op = "createFramebufferFloat" /\ util.last.threw = ""
    /\ OnMobile /\ HasFloat /\ HasHalfFloat
    /\ util.last.flg = "HALF_FLOAT_OES"
    /\ StorageFormats = {"HALF_FLOAT_OES"}

\* C19: after any sequence of pointer-move and pointer-down events and
\* canvas resizes, the stored coordinates satisfy -1 <= coords.x <= 1 and
\* -1 <= coords.y <= 1.
InUnitRange(r) == -r[2] <= r[1] /\ r[1] <= r[2]

C19_CoordsInRange == InUnitRange(coords[1]) /\ InUnitRange(coords[2])

\* C20: the frame loop never multiplies.  With render() called from outside
\* once (the DOMContentLoaded handler), at most one frame callback is pending
\* at any moment, and every render() invocation requests at most one
\* animation frame and runs Common.update() and Output.update() exactly once
\* each, the clock update first.
Occurrences(seq, x) == { i \in DOMAIN seq : seq[i] = x }

C20_LoopNeverMultiplies ==
    /\ pending <= 1
    /\ invoked # "none" =>
          /\ Cardinality(Occurrences(renderTrace, "requestAnimationFrame")) <= 1
          /\ Cardinality(Occurrences(renderTrace, "Common.update")) = 1
          /\ Cardinality(Occurrences(renderTrace, "Output.update")) = 1
          /\ \A i \in Occurrences(renderTrace, "Common.update") :
                \A j \in Occurrences(renderTrace, "Output.update") : i < j

\* A frame callback has run while the loop is alive and has requested the
\* one next frame.
C20_Witness ==
    /\ pc = "done" /\ running /\ invoked = "callback"
    /\ pending = 1
    /\ renderTrace = << "requestAnimationFrame", "Common.update", "Output.update" >>

\* C21: at most one decay timer is pending; pointerMoved = true implies that
\* a decay timer is pending, the one Pointer.timer names, due no later than
\* DecayMs from now, so the flag falls within DecayMs once events stop; a
\* setCoords call made while Common.canvas is null changes neither coords,
\* pointerMoved nor the pending timer, which are then still as constructed.
C21_OneDecayTimer ==
    /\ Cardinality(timers) <= 1
    /\ pointerMoved =>
          \E t \in timers : /\ timer = Some(t.id)
                            /\ t.due <= tnow + DecayMs
    /\ (hist.nullCall /\ canvas = "null") =>
          /\ coords = << Zero, Zero >>
          /\ ~pointerMoved
          /\ timers = {} /\ timer = Null

\* setCoords was called before a canvas existed, and a later event on the
\* canvas replaced the timer of an earlier one.
C21_Witness ==
    /\ hist.nullCall
    /\ hist.prevMoveAt >= 0 /\ hist.lastMoveAt > hist.prevMoveAt
    /\ tnow < hist.prevMoveAt + DecayMs
    /\ pointerMoved /\ Cardinality(timers) = 1

\* C22: the running flag is true only in the Running state.  After any
\* sequence of WebGLApp.init/setup/render calls, Common.running = true
\* implies that Common.gl is non-null and that previousTime was seeded by
\* Common.setup().
C22_RunningOnlyWhenReady ==
    running => (gl # "null" /\ hist.seeded)

====
